---- MODULE Spec2Model ----
(***************************************************************************)
(* Model of bottleneck/slow/reduce.py: the slow (pure NumPy) fallbacks     *)
(* median, nanmedian, nanargmin, nanargmax, ss, nn, replace, anynan and    *)
(* allnan, together with the local copies of scipy's nanmedian and ss.     *)
(*                                                                         *)
(* Numbers.  A float is a record [k, q]: k = "num" is the finite value     *)
(* q/4 (q an integer number of quarters, so that the mean of two halves    *)
(* and the square of a half are exact), k = "nan" is NaN, k = "inf" is     *)
(* +infinity, and k = "sqrt" is the positive irrational root of q/4.      *)
(* An ndarray is a record [dtype, shape, data] with data the row-major     *)
(* flattening, as in NumPy.  Arrays have at most two dimensions.           *)
(***************************************************************************)
EXTENDS Integers, Sequences, FiniteSets

\* ------------------------------------------------------------------ bounds
\* an array holds at most MaxSize elements; a dimension is at most MaxSize
MaxSize == 4
\* a query point of nn has at most MaxQuery coordinates
MaxQuery == 2

\* ------------------------------------------------------------------ floats
Num(n) == [k |-> "num", q |-> 4 * n]
Quarters(q) == [k |-> "num", q |-> q]
NaN == [k |-> "nan", q |-> 0]
Inf == [k |-> "inf", q |-> 0]

\* x != x in Python/IEEE: true of NaN only
IsNaN(x) == x.k = "nan"

\* IEEE ==: NaN equals nothing, not even itself
FEq(x, y) == ~IsNaN(x) /\ ~IsNaN(y) /\ x = y

\* IEEE < on finite values (false when either side is NaN)
FLt(x, y) == ~IsNaN(x) /\ ~IsNaN(y) /\ x.q < y.q

\* IEEE -, +, * on finite values and NaN
FSub(x, y) == IF IsNaN(x) \/ IsNaN(y) THEN NaN ELSE Quarters(x.q - y.q)
FAdd(x, y) == IF IsNaN(x) \/ IsNaN(y) THEN NaN ELSE Quarters(x.q + y.q)
FMul(x, y) == IF IsNaN(x) \/ IsNaN(y) THEN NaN ELSE Quarters((x.q * y.q) \div 4)

\* np.sqrt: exact when the root is a number of quarters, else the surd itself
FSqrt(x) ==
    IF IsNaN(x) THEN NaN
    ELSE IF \E r \in 0..(4 * x.q) : r * r = 4 * x.q
         THEN Quarters(CHOOSE r \in 0..(4 * x.q) : r * r = 4 * x.q)
         ELSE [k |-> "sqrt", q |-> x.q]

\* Python int(x): truncation toward zero; raises on NaN and on infinity
PyIntErr(x) ==
    IF x.k = "nan" THEN "ValueError: cannot convert float NaN to integer"
    ELSE IF x.k = "inf" THEN "OverflowError: cannot convert float infinity to integer"
    ELSE "none"

PyInt(x) ==
    IF x.q >= 0 THEN Quarters((x.q \div 4) * 4)
    ELSE Quarters(0 - (((0 - x.q) \div 4) * 4))

\* ------------------------------------------------------------------ arrays
DTypes == {"float64", "float32", "int64"}

\* issubclass(dtype.type, np.inexact)
IsInexact(dtype) == dtype \in {"float64", "float32"}

\* the values an array starts with: 0, 1, and NaN in a floating-point array
Elems(dtype) == {Num(0), Num(1)} \cup (IF IsInexact(dtype) THEN {NaN} ELSE {})

RECURSIVE Prod(_)
Prod(shape) == IF shape = <<>> THEN 1 ELSE Head(shape) * Prod(Tail(shape))

Shapes ==
    {s \in {<<>>} \cup {<<n>> : n \in 0..MaxSize}
                  \cup {<<r, c>> : r \in 0..MaxSize, c \in 0..MaxSize} :
        Prod(s) <= MaxSize}

\* the objects a caller passes: ndarrays (nd) of up to two dimensions, and
\* flat Python lists of floats or of ints, which np.asarray turns into arrays
Arrays ==
    UNION {UNION {{[nd |-> TRUE, dtype |-> dt, shape |-> sh, data |-> d] :
                        d \in [1..Prod(sh) -> Elems(dt)]} :
                  sh \in Shapes} :
           dt \in DTypes}
    \cup
    UNION {UNION {{[nd |-> FALSE, dtype |-> dt, shape |-> sh, data |-> d] :
                        d \in [1..Prod(sh) -> Elems(dt)]} :
                  sh \in {s \in Shapes : Len(s) = 1}} :
           dt \in {"float64", "int64"}}

Ndim(a) == Len(a.shape)
Size(a) == Prod(a.shape)

\* np.asarray(arr) / np.array(arr, copy=False)
AsArray(a) == [a EXCEPT !.nd = TRUE]

\* np.ravel(a)
Ravel(a) == [AsArray(a) EXCEPT !.shape = <<Size(a)>>]

\* Python None, as the axis argument (negative axes are not modelled)
None == -1

Axes == {None, 0, 1, 2}

\* ------------------------------------------------------------------- state
VARIABLES
    arr,     \* the caller's array
    pre,     \* its value when the last call was made
    call,    \* the last call: [op, ...arguments]
    result,  \* what the last call returned ([kind |-> "none"] if it raised)
    err      \* the exception the last call raised, or "none"

vars == <<arr, pre, call, result, err>>

NoResult == [kind |-> "none"]

Init ==
    /\ arr \in Arrays
    /\ pre = arr
    /\ call = [op |-> "idle"]
    /\ result = NoResult
    /\ err = "none"

\* no call is on record: the next call can be made
Idle == call.op = "idle"

\* the caller has looked at what the last call returned or raised, and drops it
Discard ==
    /\ ~Idle
    /\ call' = [op |-> "idle"]
    /\ pre' = arr
    /\ result' = NoResult
    /\ err' = "none"
    /\ arr' = arr

\* ----------------------------------------------------------------- replace
\* the scalars passed as old and as new
OldScalars == {Num(1), Quarters(2), NaN, Inf}
NewScalars == {Num(0), Quarters(2), NaN}

\* np.isnan(arr) / arr == old, elementwise
ReplaceMask(a, old) ==
    IF IsNaN(old) THEN [i \in 1..Size(a) |-> IsNaN(a.data[i])]
    ELSE [i \in 1..Size(a) |-> FEq(a.data[i], old)]

PutMaskInverted(a, mask, new) ==
    [a EXCEPT !.data = [i \in 1..Size(a) |-> IF mask[i] THEN a.data[i] ELSE new]]

\* np.putmask(arr, mask, new)
PutMask(a, mask, new) ==
    [a EXCEPT !.data = [i \in 1..Size(a) |-> IF mask[i] THEN new ELSE a.data[i]]]

ReplaceErrCastFirst(a, old, new) ==
    IF ~a.nd THEN "TypeError: arr must be a numpy array."
    ELSE IF IsInexact(a.dtype) THEN "none"
    ELSE IF PyIntErr(old) # "none" THEN PyIntErr(old)
    ELSE IF PyInt(old) # old THEN "ValueError: Cannot safely cast old to int."
    ELSE IF PyIntErr(new) # "none" THEN PyIntErr(new)
    ELSE IF PyInt(new) # new THEN "ValueError: Cannot safely cast new to int."
    ELSE "none"

\* the exception replace raises on (a, old, new), "none" if it raises nothing
ReplaceErr(a, old, new) ==
    IF ~a.nd THEN "TypeError: arr must be a numpy array."
    ELSE IF IsInexact(a.dtype) \/ IsNaN(old) THEN "none"
    ELSE IF PyIntErr(old) # "none" THEN PyIntErr(old)
    ELSE IF PyInt(old) # old THEN "ValueError: Cannot safely cast old to int."
    ELSE IF PyIntErr(new) # "none" THEN PyIntErr(new)
    ELSE IF PyInt(new) # new THEN "ValueError: Cannot safely cast new to int."
    ELSE "none"

\* the array after replace(a, old, new)
ReplaceArr(a, old, new) ==
    IF ReplaceErr(a, old, new) # "none" THEN a
    ELSE IF ~IsInexact(a.dtype) /\ IsNaN(old) THEN a
    ELSE PutMask(a, ReplaceMask(a, old), new)

\* replace(arr, old, new)
Replace ==
    /\ Idle
    /\ \E old \in OldScalars, new \in NewScalars :
           /\ call' = [op |-> "replace", old |-> old, new |-> new]
           /\ pre' = arr
           /\ err' = ReplaceErr(arr, old, new)
           /\ arr' = ReplaceArr(arr, old, new)
           /\ result' = NoResult

\* ------------------------------------------------- reductions along an axis
\* axis names a dimension of a (or is None: the flattened array)
ValidAxis(a, axis) == axis = None \/ (0 <= axis /\ axis < Ndim(a))

\* shape = list(x.shape); shape.pop(axis)
Pop(shape, axis) ==
    [i \in 1..(Len(shape) - 1) |-> IF i <= axis THEN shape[i] ELSE shape[i + 1]]

\* the j-th 1-d slice of a along axis (a of one or two dimensions)
Lane(a, axis, j) ==
    IF Ndim(a) = 1 THEN a.data
    ELSE IF axis = 0
         THEN [i \in 1..a.shape[1] |-> a.data[(i - 1) * a.shape[2] + j]]
         ELSE [i \in 1..a.shape[2] |-> a.data[(j - 1) * a.shape[2] + i]]

\* NumPy's reduction of a along axis by the 1-d function F: a scalar for
\* axis=None and for a 1-d array, else an array of the remaining shape
Reduce(a, axis, F(_), dtype) ==
    IF axis = None
    THEN [kind |-> "npscalar", dtype |-> dtype, shape |-> <<>>,
          data |-> <<F(a.data)>>]
    ELSE [kind |-> IF Ndim(a) = 1 THEN "npscalar" ELSE "ndarray",
          dtype |-> dtype, shape |-> Pop(a.shape, axis),
          data |-> [j \in 1..Prod(Pop(a.shape, axis)) |-> F(Lane(a, axis, j))]]

\* numpy.exceptions.AxisError, raised by NumPy's own reductions
AxisErr(a, axis) ==
    IF ValidAxis(a, axis) THEN "none" ELSE "AxisError: axis is out of bounds"

\* ------------------------------------------------------------------ median
RECURSIVE Insert(_, _)
Insert(x, s) ==
    IF s = <<>> THEN <<x>>
    ELSE IF FLt(Head(s), x) THEN <<Head(s)>> \o Insert(x, Tail(s))
    ELSE <<x>> \o s

\* np.sort of a 1-d array without NaN
RECURSIVE NpSort(_)
NpSort(s) == IF s = <<>> THEN <<>> ELSE Insert(Head(s), NpSort(Tail(s)))

\* np.mean of two values
Mean2(x, y) == Quarters((x.q + y.q) \div 2)

\* np.median of a 1-d array: NaN if it is empty or holds a NaN, else the
\* middle of the sorted values (the mean of the two middle ones)
NpMedian1(x) ==
    IF Len(x) = 0 \/ (\E i \in 1..Len(x) : IsNaN(x[i])) THEN NaN
    ELSE LET s == NpSort(x) IN
         IF Len(x) % 2 = 1 THEN s[(Len(x) + 1) \div 2]
         ELSE Mean2(s[Len(x) \div 2], s[Len(x) \div 2 + 1])

\* the dtype np.median computes in: the input's if floating, else float64
MedianDType(dtype) == IF IsInexact(dtype) THEN dtype ELSE "float64"

\* np.median(arr, axis)
NpMedian(a, axis) == Reduce(a, axis, NpMedian1, MedianDType(a.dtype))

CastBackNever(a, y) == y

\* if y.dtype != arr.dtype: if issubclass(arr.dtype.type, np.inexact):
\*     y = y.astype(arr.dtype)
CastBack(a, y) ==
    IF y.dtype # a.dtype /\ IsInexact(a.dtype) THEN [y EXCEPT !.dtype = a.dtype]
    ELSE y

\* median(arr, axis)
Median ==
    /\ Idle
    /\ \E axis \in Axes :
           /\ call' = [op |-> "median", axis |-> axis]
           /\ pre' = arr
           /\ err' = AxisErr(AsArray(arr), axis)
           /\ result' = IF AxisErr(AsArray(arr), axis) # "none" THEN NoResult
                        ELSE CastBack(AsArray(arr), NpMedian(AsArray(arr), axis))
           /\ arr' = arr

\* --------------------------------------------------------------- nanmedian
\* _chk_asarray(a, axis): the array and the axis to reduce
ChkArray(a, axis) == IF axis = None THEN Ravel(a) ELSE AsArray(a)
ChkAxis(a, axis) == IF axis = None THEN 0 ELSE axis

\* np.compress(cond, arr1d): the entries whose cond is non-zero
RECURSIVE Compress(_, _)
Compress(cond, x) ==
    IF x = <<>> THEN <<>>
    ELSE (IF Head(cond) # 0 THEN <<Head(x)>> ELSE <<>>)
         \o Compress(Tail(cond), Tail(x))

NanMedian1EmptyIsZero(x) ==
    LET cond == [i \in 1..Len(x) |-> IF IsNaN(x[i]) THEN 0 ELSE 1]
        kept == NpSort(Compress(cond, x))
    IN  IF Len(kept) = 0 THEN Quarters(0) ELSE NpMedian1(kept)

NanMedian1KeepNaN(x) == NpMedian1(x)

\* _nanmedian(arr1d): the value returned
NanMedian1(x) ==
    LET cond == [i \in 1..Len(x) |-> IF IsNaN(x[i]) THEN 0 ELSE 1]
        kept == NpSort(Compress(cond, x))
    IN  IF Len(kept) = 0 THEN NaN ELSE NpMedian1(kept)

\* _nanmedian(arr1d): the dtype of the value returned (np.nan is a Python
\* float, np.median keeps a floating dtype)
NanMedian1DType(x, dtype) ==
    IF \A i \in 1..Len(x) : IsNaN(x[i]) THEN "float64" ELSE MedianDType(dtype)

\* np.apply_along_axis(_nanmedian, axis, x): the output takes the dtype of the
\* result for the first slice; a 1-d input gives a 0-d array
ApplyAlongAxis(x, axis) ==
    [kind |-> "ndarray",
     dtype |-> NanMedian1DType(Lane(x, axis, 1), x.dtype),
     shape |-> Pop(x.shape, axis),
     data |-> [j \in 1..Prod(Pop(x.shape, axis)) |-> NanMedian1(Lane(x, axis, j))]]

\* the exception scipy_nanmedian raises: shape.pop(axis) out of range
ScipyNanmedianErr(a, axis) ==
    IF Ndim(ChkArray(a, axis)) # 0 /\ ChkAxis(a, axis) >= Ndim(ChkArray(a, axis))
    THEN "IndexError: pop index out of range"
    ELSE "none"

ScipyNanmedianEmptyUnpopped(a, axis) ==
    LET x == ChkArray(a, axis)
        ax == ChkAxis(a, axis)
    IN  IF Ndim(x) = 0
        THEN [kind |-> "pyfloat", dtype |-> "float64", shape |-> <<>>, data |-> x.data]
        ELSE IF \E i \in 1..Len(Pop(x.shape, ax)) : Pop(x.shape, ax)[i] = 0
        THEN [kind |-> "ndarray", dtype |-> "float64", shape |-> x.shape,
              data |-> <<>>]
        ELSE LET y == ApplyAlongAxis(x, ax) IN
             IF Len(y.shape) = 0
             THEN [kind |-> "pyfloat", dtype |-> "float64", shape |-> <<>>,
                   data |-> y.data]
             ELSE y

\* scipy_nanmedian(x, axis), when it does not raise
ScipyNanmedian(a, axis) ==
    LET x == ChkArray(a, axis)
        ax == ChkAxis(a, axis)
    IN  IF Ndim(x) = 0
        THEN \* float(x.item())
             [kind |-> "pyfloat", dtype |-> "float64", shape |-> <<>>, data |-> x.data]
        ELSE IF \E i \in 1..Len(Pop(x.shape, ax)) : Pop(x.shape, ax)[i] = 0
        THEN \* np.empty(shape)
             [kind |-> "ndarray", dtype |-> "float64", shape |-> Pop(x.shape, ax),
              data |-> <<>>]
        ELSE LET y == ApplyAlongAxis(x, ax) IN
             IF Len(y.shape) = 0
             THEN \* float(x.item())
                  [kind |-> "pyfloat", dtype |-> "float64", shape |-> <<>>,
                   data |-> y.data]
             ELSE y

\* if not hasattr(y, "dtype"): arr.dtype.type(y) or np.float64(y)
WrapFloat(a, y) ==
    IF y.kind = "pyfloat"
    THEN [y EXCEPT !.kind = "npscalar",
                   !.dtype = IF IsInexact(a.dtype) THEN a.dtype ELSE "float64"]
    ELSE y

\* if (y.size == 1) and (y.ndim == 0): y = y[()]
Unwrap(y) ==
    IF Len(y.data) = 1 /\ Len(y.shape) = 0 THEN [y EXCEPT !.kind = "npscalar"]
    ELSE y

\* what nanmedian(arr, axis) returns, when it does not raise
NanmedianResult(a, axis) ==
    Unwrap(CastBack(AsArray(a), WrapFloat(AsArray(a), ScipyNanmedian(AsArray(a), axis))))

ScipyNanmedianSortsInPlace(a) == [a EXCEPT !.data = NpSort(a.data)]

\* the caller's array after scipy_nanmedian: x = x.copy() is what the slices
\* are taken from, and np.compress and np.sort return new arrays
ScipyNanmedianLeaves(a) == a

\* nanmedian(arr, axis)
Nanmedian ==
    /\ Idle
    /\ \E axis \in Axes :
           /\ call' = [op |-> "nanmedian", axis |-> axis]
           /\ pre' = arr
           /\ err' = ScipyNanmedianErr(AsArray(arr), axis)
           /\ result' = IF ScipyNanmedianErr(AsArray(arr), axis) # "none" THEN NoResult
                        ELSE NanmedianResult(arr, axis)
           /\ arr' = ScipyNanmedianLeaves(arr)

NextMedian == Median \/ Nanmedian \/ Discard

SpecMedian == Init /\ [][NextMedian]_vars

\* ------------------------------------------------- nanargmin and nanargmax
\* np.argmin / np.argmax of a 1-d array (0-based): the first NaN if there is
\* one, else the first least / greatest entry
NpArgMin1(x) ==
    IF \E i \in 1..Len(x) : IsNaN(x[i])
    THEN (CHOOSE i \in 1..Len(x) :
              IsNaN(x[i]) /\ \A j \in 1..(i - 1) : ~IsNaN(x[j])) - 1
    ELSE (CHOOSE i \in 1..Len(x) :
              /\ \A j \in 1..Len(x) : ~FLt(x[j], x[i])
              /\ \A j \in 1..(i - 1) : FLt(x[i], x[j])) - 1

\* np.nanargmin of a 1-d array with a non-NaN entry: NaN counts as +inf
NanArgMin1(x) ==
    (CHOOSE i \in 1..Len(x) :
        /\ ~IsNaN(x[i])
        /\ \A j \in 1..Len(x) : ~FLt(x[j], x[i])
        /\ \A j \in 1..(i - 1) : IsNaN(x[j]) \/ FLt(x[i], x[j])) - 1

\* np.nanargmax of a 1-d array with a non-NaN entry: NaN counts as -inf
NanArgMax1(x) ==
    (CHOOSE i \in 1..Len(x) :
        /\ ~IsNaN(x[i])
        /\ \A j \in 1..Len(x) : ~FLt(x[i], x[j])
        /\ \A j \in 1..(i - 1) : IsNaN(x[j]) \/ FLt(x[j], x[i])) - 1

\* the slices np.nanargmin / np.nanargmax reduce
ArgLanes(a, axis) ==
    IF axis = None THEN {a.data}
    ELSE {Lane(a, axis, j) : j \in 1..Prod(Pop(a.shape, axis))}

\* the exception np.nanargmin / np.nanargmax raise (NumPy >= 1.8 raises on an
\* all-NaN slice, with or without the warnings filter)
NanArgErr(a, axis) ==
    IF ~ValidAxis(a, axis) THEN "AxisError: axis is out of bounds"
    ELSE IF \E x \in ArgLanes(a, axis) : Len(x) > 0 /\ \A i \in 1..Len(x) : IsNaN(x[i])
    THEN "ValueError: All-NaN slice encountered"
    ELSE IF \E x \in ArgLanes(a, axis) : Len(x) = 0
    THEN "ValueError: attempt to get argmin of an empty sequence"
    ELSE "none"

\* nanargmin(arr, axis)
Nanargmin ==
    /\ Idle
    /\ \E axis \in Axes :
           /\ call' = [op |-> "nanargmin", axis |-> axis]
           /\ pre' = arr
           /\ err' = NanArgErr(AsArray(arr), axis)
           /\ result' = IF NanArgErr(AsArray(arr), axis) # "none" THEN NoResult
                        ELSE Reduce(AsArray(arr), axis, NanArgMin1, "intp")
           /\ arr' = arr

\* nanargmax(arr, axis)
Nanargmax ==
    /\ Idle
    /\ \E axis \in Axes :
           /\ call' = [op |-> "nanargmax", axis |-> axis]
           /\ pre' = arr
           /\ err' = NanArgErr(AsArray(arr), axis)
           /\ result' = IF NanArgErr(AsArray(arr), axis) # "none" THEN NoResult
                        ELSE Reduce(AsArray(arr), axis, NanArgMax1, "intp")
           /\ arr' = arr

\* ---------------------------------------------------------------------- ss
\* np.sum of a 1-d array
RECURSIVE Sum1(_)
Sum1(x) == IF x = <<>> THEN Quarters(0) ELSE FAdd(Head(x), Sum1(Tail(x)))

\* np.sum(a*a) of a 1-d array
SumSq1(x) == Sum1([i \in 1..Len(x) |-> FMul(x[i], x[i])])

\* scipy_ss(a, axis)
ScipySS(a, axis) == Reduce(ChkArray(a, axis), ChkAxis(a, axis), SumSq1, a.dtype)

\* ss(arr, axis)
SS ==
    /\ Idle
    /\ \E axis \in Axes :
           /\ call' = [op |-> "ss", axis |-> axis]
           /\ pre' = arr
           /\ err' = AxisErr(ChkArray(arr, axis), ChkAxis(arr, axis))
           /\ result' = IF AxisErr(ChkArray(arr, axis), ChkAxis(arr, axis)) # "none"
                        THEN NoResult
                        ELSE ScipySS(arr, axis)
           /\ arr' = arr

\* -------------------------------------------------------- anynan and allnan
\* np.isnan(x).any() / np.isnan(x).all() of a 1-d array
AnyNaN1(x) == \E i \in 1..Len(x) : IsNaN(x[i])
AllNaN1(x) == \A i \in 1..Len(x) : IsNaN(x[i])

\* anynan(arr, axis)
Anynan ==
    /\ Idle
    /\ \E axis \in Axes :
           /\ call' = [op |-> "anynan", axis |-> axis]
           /\ pre' = arr
           /\ err' = AxisErr(AsArray(arr), axis)
           /\ result' = IF AxisErr(AsArray(arr), axis) # "none" THEN NoResult
                        ELSE Reduce(AsArray(arr), axis, AnyNaN1, "bool")
           /\ arr' = arr

\* allnan(arr, axis)
Allnan ==
    /\ Idle
    /\ \E axis \in Axes :
           /\ call' = [op |-> "allnan", axis |-> axis]
           /\ pre' = arr
           /\ err' = AxisErr(AsArray(arr), axis)
           /\ result' = IF AxisErr(AsArray(arr), axis) # "none" THEN NoResult
                        ELSE Reduce(AsArray(arr), axis, AllNaN1, "bool")
           /\ arr' = arr

\* ---------------------------------------------------------------------- nn
\* the query points passed as arr0: 1-d float arrays of 0 and 1, and, as
\* objects of the wrong dimension, a 0-d and a 2-d array
Queries ==
    UNION {{[nd |-> TRUE, dtype |-> "float64", shape |-> <<n>>, data |-> d] :
                d \in [1..n -> {Num(0), Num(1)}]} : n \in 0..MaxQuery}
    \cup {[nd |-> TRUE, dtype |-> "float64", shape |-> <<>>, data |-> <<Num(1)>>],
          [nd |-> TRUE, dtype |-> "float64", shape |-> <<1, 1>>, data |-> <<Num(1)>>]}

\* NumPy broadcasting of two dimension lengths: compatible, and the result
BcOk(x, y) == x = y \/ x = 1 \/ y = 1
Bc(x, y) == IF x = 1 THEN y ELSE x

\* entry (i, j) of a 2-d array, a dimension of length 1 being broadcast
At(a, i, j) ==
    a.data[((IF a.shape[1] = 1 THEN 1 ELSE i) - 1) * a.shape[2]
           + (IF a.shape[2] = 1 THEN 1 ELSE j)]

Sq(x) == FMul(x, x)

\* d = (arr - arr0) ** 2 (axis 1) / (arr - arr0.reshape(-1, 1)) ** 2 (axis 0)
SqDiff(a, q, axis) ==
    LET qq == IF axis = 1 THEN [q EXCEPT !.shape = <<1, q.shape[1]>>]
                          ELSE [q EXCEPT !.shape = <<q.shape[1], 1>>]
        rows == Bc(a.shape[1], qq.shape[1])
        cols == Bc(a.shape[2], qq.shape[2])
    IN  [nd |-> TRUE, dtype |-> "float64", shape |-> <<rows, cols>>,
         data |-> [n \in 1..(rows * cols) |->
                      LET i == (n - 1) \div cols + 1
                          j == ((n - 1) % cols) + 1
                      IN  Sq(FSub(At(a, i, j), At(qq, i, j)))]]

NNDistsOtherAxis(a, q, axis) == Reduce(SqDiff(a, q, axis), 1 - axis, Sum1, "float64").data

\* d = d.sum(axis): the squared distance of each candidate
NNDists(a, q, axis) == Reduce(SqDiff(a, q, axis), axis, Sum1, "float64").data

NNErrQuery2d(a, q, axis) ==
    IF Ndim(a) # 2 THEN "ValueError: arr must be 2d"
    ELSE IF Ndim(q) # 2 THEN "ValueError: arr0 must be 1d"
    ELSE IF axis \notin {0, 1} THEN "ValueError: axis must be 0 or 1."
    ELSE IF ~BcOk(a.shape[axis + 1], q.shape[1])
    THEN "ValueError: operands could not be broadcast together"
    ELSE IF Len(NNDists(a, q, axis)) = 0
    THEN "ValueError: attempt to get argmin of an empty sequence"
    ELSE "none"

\* the exception nn raises on (a, q, axis), "none" if it raises nothing
NNErr(a, q, axis) ==
    IF Ndim(a) # 2 THEN "ValueError: arr must be 2d"
    ELSE IF Ndim(q) # 1 THEN "ValueError: arr0 must be 1d"
    ELSE IF axis \notin {0, 1} THEN "ValueError: axis must be 0 or 1."
    ELSE IF ~BcOk(a.shape[axis + 1], q.shape[1])
    THEN \* arr - arr0 (axis 1, columns) / arr - arr0.reshape(-1, 1) (axis 0, rows)
         "ValueError: operands could not be broadcast together"
    ELSE IF Len(NNDists(a, q, axis)) = 0
    THEN \* np.argmin(d) of the empty d.sum(axis)
         "ValueError: attempt to get argmin of an empty sequence"
    ELSE "none"

\* idx = np.argmin(d); return np.sqrt(d[idx]), idx
NNResult(a, q, axis) ==
    LET d == NNDists(a, q, axis)
        idx == NpArgMin1(d)
    IN  [kind |-> "tuple", dist |-> FSqrt(d[idx + 1]), idx |-> idx]

\* nn(arr, arr0, axis)
NN ==
    /\ Idle
    /\ \E q \in Queries, axis \in {0, 1, 2} :
           /\ call' = [op |-> "nn", arr0 |-> q, axis |-> axis]
           /\ pre' = arr
           /\ err' = NNErr(AsArray(arr), q, axis)
           /\ result' = IF NNErr(AsArray(arr), q, axis) # "none" THEN NoResult
                        ELSE NNResult(AsArray(arr), q, axis)
           /\ arr' = arr

NextNN == NN \/ Discard

SpecNN == Init /\ [][NextNN]_vars

\* ------------------------------------------------------------ specification
Next ==
    \/ Median
    \/ Nanmedian
    \/ Nanargmin
    \/ Nanargmax
    \/ SS
    \/ NN
    \/ Replace
    \/ Anynan
    \/ Allnan
    \/ Discard

Spec == Init /\ [][Next]_vars

NextReplace == Replace \/ Discard

SpecReplace == Init /\ [][NextReplace]_vars

\* ========================================================== claims: replace
\* x is exactly representable as an integer
Integral(x) == x.k = "num" /\ x.q % 4 = 0

\* v is matched by old: "is NaN" when old is NaN, ordinary equality otherwise
Matches(v, old) ==
    IF old.k = "nan" THEN v.k = "nan"
    ELSE v.k # "nan" /\ v.k = old.k /\ v.q = old.q

ReplaceOn(floating) ==
    /\ call.op = "replace"
    /\ pre.nd
    /\ IsInexact(pre.dtype) = floating

\* C1: after replace(a, old, new) on a floating-point array, every position
\* whose prior value matched old holds new and every other position holds its
\* prior value; NaN matches NaN when old is NaN, and a NaN position is never
\* matched by a non-NaN old.
C1_ReplaceMatches ==
    ReplaceOn(TRUE) =>
        /\ err = "none"
        /\ arr.shape = pre.shape /\ arr.dtype = pre.dtype
        /\ DOMAIN arr.data = DOMAIN pre.data
        /\ \A i \in DOMAIN pre.data :
              arr.data[i] = IF Matches(pre.data[i], call.old) THEN call.new
                            ELSE pre.data[i]

\* a NaN position was replaced by a number while another position was kept
C1_Witness ==
    /\ ReplaceOn(TRUE)
    /\ IsNaN(call.old) /\ ~IsNaN(call.new)
    /\ \E i, j \in DOMAIN pre.data :
          /\ IsNaN(pre.data[i]) /\ arr.data[i] = call.new
          /\ ~IsNaN(pre.data[j]) /\ arr.data[j] = pre.data[j] /\ arr.data[j] # call.new

\* C2: on a non-floating array with old not NaN, replace fails with the
\* unsafe-cast error whenever old or new is not exactly representable as an
\* integer, leaving every element unchanged, and mutates only when both are
\* integral.
C2_UnsafeCast ==
    (ReplaceOn(FALSE) /\ ~IsNaN(call.old)) =>
        /\ (~Integral(call.old) \/ ~Integral(call.new)) =>
              /\ err \in {"ValueError: Cannot safely cast old to int.",
                          "ValueError: Cannot safely cast new to int."}
              /\ arr = pre
        /\ arr # pre => (Integral(call.old) /\ Integral(call.new))

\* C3: on a non-floating array with old = NaN, replace returns normally and
\* leaves every element unchanged, whatever new is.
C3_IntNaNNoop ==
    (ReplaceOn(FALSE) /\ IsNaN(call.old)) => (err = "none" /\ arr = pre)

\* old = NaN with a non-integral new on a non-empty integer array
C3_Witness ==
    /\ ReplaceOn(FALSE) /\ IsNaN(call.old)
    /\ ~Integral(call.new) /\ Size(pre) > 0
    /\ err = "none"

\* ======================================================== claims: nanmedian
\* the slice that output position j of the last reduction was computed from
SliceAt(j) ==
    IF call.axis = None \/ Ndim(pre) <= 1 THEN pre.data
    ELSE Lane(AsArray(pre), call.axis, j)

\* the non-NaN entries of a slice
Survivors(x) == SelectSeq(x, LAMBDA v : v.k # "nan")

\* the k-th smallest entry of a NaN-free sequence, by rank
Kth(x, k) ==
    CHOOSE v \in {x[i] : i \in 1..Len(x)} :
        /\ Cardinality({i \in 1..Len(x) : x[i].q < v.q}) < k
        /\ k <= Cardinality({i \in 1..Len(x) : x[i].q <= v.q})

\* the ordinary median of a non-empty NaN-free sequence
OrdinaryMedian(x) ==
    IF Len(x) % 2 = 1 THEN Kth(x, (Len(x) + 1) \div 2)
    ELSE Quarters((Kth(x, Len(x) \div 2).q + Kth(x, Len(x) \div 2 + 1).q) \div 2)

NanmedianReturned == call.op = "nanmedian" /\ err = "none"

\* C6: at each output position whose slice along the reduction axis holds a
\* non-NaN value, nanmedian returns the ordinary median of the slice with its
\* NaN entries removed; with axis absent the slice is the flattened array.
C6_NanmedianIsMedianOfSurvivors ==
    NanmedianReturned =>
        \A j \in 1..Len(result.data) :
            Len(Survivors(SliceAt(j))) > 0 =>
                result.data[j] = OrdinaryMedian(Survivors(SliceAt(j)))

\* a slice with a NaN and two different survivors, whose median is their mean
C6_Witness ==
    /\ NanmedianReturned
    /\ \E j \in 1..Len(result.data) :
          /\ \E i \in 1..Len(SliceAt(j)) : IsNaN(SliceAt(j)[i])
          /\ Len(Survivors(SliceAt(j))) = 2
          /\ result.data[j] = Quarters(2)

\* C7: nanmedian on a slice that is entirely NaN, or of zero length, returns
\* NaN for that slice and does not raise.
C7_AllNaNSliceGivesNaN ==
    (call.op = "nanmedian" /\ (ValidAxis(pre, call.axis) \/ Ndim(pre) = 0)) =>
        /\ err = "none"
        /\ \A j \in 1..Len(result.data) :
              Len(Survivors(SliceAt(j))) = 0 => IsNaN(result.data[j])

\* a zero-length slice and an all-NaN slice of positive length, both NaN
C7_Witness ==
    /\ NanmedianReturned
    /\ \E j \in 1..Len(result.data) : Len(SliceAt(j)) = 0 /\ IsNaN(result.data[j])

C7_WitnessAllNaN ==
    /\ NanmedianReturned
    /\ \E j \in 1..Len(result.data) :
          /\ Len(SliceAt(j)) > 1 /\ Len(Survivors(SliceAt(j))) = 0
          /\ IsNaN(result.data[j])

\* the last call was nanmedian along an axis of pre that has length zero
ZeroLengthAxis ==
    /\ call.op = "nanmedian"
    /\ call.axis # None /\ ValidAxis(pre, call.axis)
    /\ pre.shape[call.axis + 1] = 0

\* C8 (as stated): along a reduction axis of length zero nanmedian does not
\* fail and produces an empty result whose shape is the input shape with the
\* reduction axis removed.
C8_EmptyResult ==
    ZeroLengthAxis =>
        /\ err = "none"
        /\ result.shape = Pop(pre.shape, call.axis)
        /\ Len(result.data) = 0

\* C8 (amended): along a reduction axis of length zero nanmedian does not fail
\* and produces a result whose shape is the input shape with the reduction
\* axis removed; the result is empty only if a remaining dimension has length
\* zero, and otherwise holds NaN at every position.
C8_ShapeOfZeroLengthReduction ==
    ZeroLengthAxis =>
        /\ err = "none"
        /\ result.shape = Pop(pre.shape, call.axis)
        /\ Len(result.data) = Prod(Pop(pre.shape, call.axis))
        /\ \A j \in 1..Len(result.data) : IsNaN(result.data[j])

\* both outcomes: an empty result, and a non-empty result of NaN
C8_Witness ==
    /\ ZeroLengthAxis /\ err = "none"
    /\ Ndim(pre) = 2 /\ Len(result.data) = 0 /\ result.shape = <<0>>

C8_WitnessNaN ==
    /\ ZeroLengthAxis /\ err = "none"
    /\ Ndim(pre) = 2 /\ Len(result.data) = 2

\* C9: for a floating-point input the result of median and of nanmedian has
\* the input's element type on every path; for a non-floating input the result
\* of nanmedian is float64; a zero-dimensional nanmedian result is a bare
\* scalar, not a 0-d array.
C9_ResultDType ==
    (call.op \in {"median", "nanmedian"} /\ err = "none") =>
        /\ IsInexact(pre.dtype) => result.dtype = pre.dtype
        /\ (call.op = "nanmedian" /\ ~IsInexact(pre.dtype)) => result.dtype = "float64"
        /\ (call.op = "nanmedian" /\ Len(result.shape) = 0) => result.kind = "npscalar"

\* float32 input on the paths where the computed dtype is float64: the empty
\* branch, a first slice without survivors, and the bare-float result
C9_Witness ==
    /\ NanmedianReturned /\ pre.dtype = "float32"
    /\ Ndim(pre) = 2 /\ Len(result.data) = 2
    /\ Len(Survivors(SliceAt(1))) = 0 /\ Len(Survivors(SliceAt(2))) > 0
    /\ result.dtype = "float32"

C9_WitnessEmpty ==
    /\ NanmedianReturned /\ pre.dtype = "float32"
    /\ Ndim(pre) = 2 /\ Len(result.data) = 0 /\ result.dtype = "float32"

C9_WitnessScalar ==
    /\ NanmedianReturned /\ pre.dtype = "float32"
    /\ Ndim(pre) = 1 /\ result.kind = "npscalar" /\ result.dtype = "float32"

\* =============================================================== claims: nn
NNCalled == call.op = "nn"

\* the arguments of the last nn call have the wrong number of dimensions, or
\* the axis is neither 0 nor 1
NNBadArgs == Ndim(pre) # 2 \/ Ndim(call.arr0) # 1 \/ call.axis \notin {0, 1}

\* query_point has one coordinate per coordinate of a candidate
NNMatching == call.arr0.shape[1] = pre.shape[call.axis + 1]

\* the number of candidates: rows for axis=1, columns for axis=0
NNCandidates == pre.shape[2 - call.axis]

\* C4 (as stated): nn fails with the invalid-argument error exactly when
\* points is not 2-D, or query_point is not 1-D, or axis is neither 0 nor 1;
\* for every 2-D points, 1-D query_point of matching length and axis in {0,1}
\* it does not raise.
C4_RaisesExactlyWhen ==
    NNCalled =>
        /\ err # "none" <=> NNBadArgs
        /\ (~NNBadArgs /\ NNMatching) => err = "none"

\* C4 (amended): nn fails with the invalid-argument error, and returns no
\* result, whenever points is not 2-D, or query_point is not 1-D, or axis is
\* neither 0 nor 1; for 2-D points with at least one candidate, a 1-D
\* query_point of matching length and axis in {0,1} it does not raise; with
\* no candidate it fails with the invalid-argument error of the minimum search.
C4_NNRaises ==
    NNCalled =>
        /\ NNBadArgs =>
              /\ err \in {"ValueError: arr must be 2d", "ValueError: arr0 must be 1d",
                          "ValueError: axis must be 0 or 1."}
              /\ result = NoResult
        /\ (~NNBadArgs /\ NNMatching /\ NNCandidates > 0) =>
              (err = "none" /\ result.kind = "tuple")
        /\ (~NNBadArgs /\ NNMatching /\ NNCandidates = 0) =>
              /\ err = "ValueError: attempt to get argmin of an empty sequence"
              /\ result = NoResult

\* 2-D points and a query_point that is not 1-D
C4_Witness ==
    /\ NNCalled /\ Ndim(pre) = 2 /\ Size(pre) = 4
    /\ Ndim(call.arr0) # 1 /\ call.axis \in {0, 1}
    /\ err = "ValueError: arr0 must be 1d"

C4_WitnessReturns ==
    /\ NNCalled /\ ~NNBadArgs /\ NNMatching /\ NNCandidates = 2
    /\ err = "none"

\* candidate k of the last nn call: row k for axis=1, column k for axis=0
Candidate(k) ==
    IF call.axis = 1
    THEN [j \in 1..pre.shape[2] |-> pre.data[(k - 1) * pre.shape[2] + j]]
    ELSE [i \in 1..pre.shape[1] |-> pre.data[(i - 1) * pre.shape[2] + k]]

\* the squared Euclidean distance of two points
RECURSIVE Dist2(_, _)
Dist2(x, y) ==
    IF x = <<>> THEN Quarters(0)
    ELSE FAdd(Sq(FSub(Head(x), Head(y))), Dist2(Tail(x), Tail(y)))

\* the minimum of a non-empty sequence, NaN if it holds a NaN (np.min)
MinOf(d) ==
    IF \E k \in 1..Len(d) : IsNaN(d[k]) THEN NaN
    ELSE CHOOSE v \in {d[k] : k \in 1..Len(d)} : \A k \in 1..Len(d) : v.q <= d[k].q

\* r is the square root of d
IsRootOf(r, d) ==
    IF IsNaN(d) THEN IsNaN(r)
    ELSE \/ r.k = "num" /\ r.q >= 0 /\ r.q * r.q = 4 * d.q
         \/ r.k = "sqrt" /\ r.q = d.q /\ \A n \in 0..(4 * d.q) : n * n # 4 * d.q

\* the transpose of a 2-d array
Transpose(a) ==
    [a EXCEPT !.shape = <<a.shape[2], a.shape[1]>>,
              !.data = [n \in 1..Size(a) |->
                           a.data[((n - 1) % a.shape[1]) * a.shape[2]
                                  + ((n - 1) \div a.shape[1]) + 1]]]

NNValid == NNCalled /\ err = "none" /\ NNMatching

C5_WitnessRows ==
    /\ NNValid /\ call.axis = 1 /\ pre.shape = <<2, 2>>
    /\ result.idx = 1 /\ result.dist = Num(1)
    /\ Dist2(Candidate(1), call.arr0.data) = Num(2)

C5_WitnessSurd == NNValid /\ result.dist.k = "sqrt"

C5_WitnessNaN == NNValid /\ NNCandidates = 2 /\ result.idx = 1 /\ IsNaN(result.dist)

\* ============================================================ claims: frame
\* C10: median, nanmedian, nanargmin, nanargmax, ss, nn, anynan and allnan
\* leave the contents of the caller's array unchanged; replace is the only
\* operation that changes an element of it.
C10_OnlyReplaceMutates == call.op # "replace" => arr = pre

\* nanmedian called, after replace wrote 0.5 twice, on an array that sorting
\* in place would have changed
C10_Witness ==
    /\ call.op = "nanmedian" /\ err = "none"
    /\ Size(pre) = 3
    /\ pre.data[1] = Num(1) /\ pre.data[2] = Quarters(2) /\ pre.data[3] = Quarters(2)
    /\ arr = pre

\* replace changed an element
C10_WitnessReplace == call.op = "replace" /\ arr # pre

====
